---- MODULE Spec2Model ----
(***************************************************************************)
(* A model of gameeapi's GameeAPIClient (src/gameeapi/gamee_api_client.py).*)
(*                                                                         *)
(* One client instance is constructed (Init).  Callers issue up to         *)
(* MaxCalls operation calls on it, in any overlap; every call is a         *)
(* coroutine with its own frame (parameters, locals, position).  Each      *)
(* `await self._http_client.post(...)` is a suspension point: the part of  *)
(* a method before it is one action, the part after it (raise_for_status,  *)
(* json, and for save_web_gameplay the second request) is another, taken   *)
(* when the remote service answers or the transport fails.  When a call    *)
(* returns or raises its frame is freed, and `finished` holds what it did  *)
(* and what its caller observes.                                           *)
(*                                                                         *)
(* Abstractions: MD5 is an uninterpreted collision-free digest of its      *)
(* input string (md5hex); a JSON document is the record it decodes to; the *)
(* remote service answers with any element of Responses.                   *)
(***************************************************************************)
EXTENDS Integers, Sequences, FiniteSets, TLC

\* ------------------------------------------------------------------ bounds

\* Number of operation calls issued on the client instance; all of them may
\* be in flight at once.
MaxCalls == 2

\* Number of direct _generate_checksum calls recorded under ChecksumSpec.
MaxChecksumCalls == 2

Calls == 1..MaxCalls

\* --------------------------------------------------------- class constants

BASE_URL == "https://api.gamee.com/"

TIMEOUT == 30

SEED == "crmjbjm3lczhlgnek9uaxz2l9svlfjw14npauhen"

USER_AGENT == "Mozilla/5.0 (Linux; Android 10; K) AppleWebKit/537.36 (KHTML, like Gecko) Chrome/124.0.0.0 Mobile Safari/537.36"

\* ------------------------------------------------------------ input domains

\* Values str(uuid4()) may produce.
Uuids == { "abc-123", "9f1c-77e" }

\* Constructions: the arguments (base_url, timeout), by default or given, and
\* the value uuid4() returned.
Constructions ==
    { [base_url |-> BASE_URL, timeout |-> TIMEOUT, uuid |-> "abc-123"],
      [base_url |-> "http://localhost:8080/rpc", timeout |-> TIMEOUT - 25,
       uuid |-> "9f1c-77e"] }

\* Game URLs by component; the second has a query, so the URL is more than
\* its path.
ParsedUrls ==
    { [scheme |-> "https", netloc |-> "example.com",
       path |-> "/play/mygame", query |-> ""],
      [scheme |-> "https", netloc |-> "prizes.gamee.com",
       path |-> "/game-bot/karate", query |-> "ref=tg"] }

\* The URL string a caller passes for the components u.
UrlString(u) ==
    u.scheme \o "://" \o u.netloc \o u.path
        \o (IF u.query = "" THEN "" ELSE "?" \o u.query)

GameUrls == { UrlString(u) : u \in ParsedUrls }

AuthTokens == { "tokA", "tokB" }

\* Argument tuples of save_web_gameplay / get_web_surrounding_by_game calls.
\* No range check is made on score or play_time, so a negative score is an
\* input like any other.
CallArgs ==
    { [auth_token |-> "tokA", game_url |-> "https://example.com/play/mygame",
       score |-> 1500, play_time |-> 42],
      [auth_token |-> "tokB",
       game_url |-> "https://prizes.gamee.com/game-bot/karate?ref=tg",
       score |-> -7, play_time |-> 9] }

\* Inputs of direct _generate_checksum calls.
Scores == { -7, 42, 1500 }

PlayTimes == { 9, 42 }

\* randint(1, 500): the two ends of the range.
GameplayIds == { 1, 500 }

\* datetime.now(timezone.utc).strftime('%Y-%m-%dT%H:%M:%S%z') values.
CreatedTimes == { "2024-05-01T12:00:00+0000" }

\* ------------------------------------------------------- the remote service

\* JSON documents the service may answer with.
GameDoc(id, number) ==
    [result |-> [game |-> [id |-> id, release |-> [number |-> number]]]]

RpcErrorDoc ==
    [error |-> [code |-> -32000, message |-> "Invalid request"]]

JsonBody(doc) == [json |-> TRUE, doc |-> doc]

\* A 2xx body that is no JSON at all.
HtmlBody == [json |-> FALSE, raw |-> "<html>"]

Statuses == { 200, 302, 404 }

HttpResponse(status, body) ==
    [kind |-> "response", status_code |-> status, body |-> body]

\* The transport failing (connect error, timeout): post() raises.
TransportFailure == [kind |-> "transport_error"]

Responses ==
    { HttpResponse(200, b) :
        b \in { JsonBody(GameDoc(101, 3)), JsonBody(GameDoc(202, 8)),
                JsonBody(RpcErrorDoc), HtmlBody } }
    \cup { HttpResponse(s, JsonBody(RpcErrorDoc)) : s \in Statuses \ {200} }
    \cup { TransportFailure }

\* ------------------------------------------------------------------- state

VARIABLES
    base_url,         \* self.base_url
    timeout,          \* self.timeout
    _uuid,            \* self._uuid
    _http_client,     \* self._http_client: its state and configured timeout
    in_scope,         \* whether the caller still holds the client instance
    pc,               \* pc[c]: position of call c's coroutine
    op,               \* op[c]: the method it runs
    args,             \* args[c]: the parameters it was given
    gameplay_details, \* gameplay_details[c]: local of save_web_gameplay
    events,           \* events[c]: its posts, responses and json() calls
    finished,         \* the call that returned or raised last
    checksum_calls    \* direct _generate_checksum calls: inputs and digest

vars ==
    << base_url, timeout, _uuid, _http_client, in_scope, pc, op, args,
       gameplay_details, events, finished, checksum_calls >>

session == << base_url, timeout, _uuid, _http_client >>

None == [kind |-> "None"]

Init ==
    /\ \E k \in Constructions :
          /\ base_url = k.base_url
          /\ timeout = k.timeout
          /\ _http_client = [state |-> "open", timeout |-> k.timeout]
          /\ _uuid = k.uuid
    /\ in_scope = TRUE
    /\ pc = [c \in Calls |-> "idle"]
    /\ op = [c \in Calls |-> "none"]
    /\ args = [c \in Calls |-> None]
    /\ gameplay_details = [c \in Calls |-> None]
    /\ events = [c \in Calls |-> << >>]
    /\ finished = None
    /\ checksum_calls = << >>

\* ----------------------------------------------------------------- helpers

\* urlparse(game_url): the components of a URL string.
urlparse(game_url) == CHOOSE u \in ParsedUrls : UrlString(u) = game_url

\* md5(text.encode("utf-8")).hexdigest(): the digest of exactly this text.
md5hex(text) == [md5 |-> text]

\* A plausible slip: a single colon before the installation identifier.
_generate_checksum_single_colon(score, play_time, game_url_path) ==
    md5hex(ToString(score) \o ":" \o ToString(play_time) \o ":"
           \o game_url_path \o ":" \o _uuid \o ":" \o SEED)

_generate_checksum(score, play_time, game_url_path) ==
    md5hex(ToString(score) \o ":" \o ToString(play_time) \o ":"
           \o game_url_path \o "::" \o _uuid \o ":" \o SEED)

\* The headers of an operation that takes no auth token.
PlainHeaders ==
    ("User-Agent" :> USER_AGENT) @@ ("X-Install-Uuid" :> _uuid)

\* The headers of an operation that takes an auth token.
BearerHeaders(auth_token) ==
    ("User-Agent" :> USER_AGENT)
        @@ ("Authorization" :> ("Bearer " \o auth_token))
        @@ ("X-Install-Uuid" :> _uuid)

\* self._http_client.post(self.base_url, data=dumps(data), headers=headers)
Post(data, headers) ==
    [verb |-> "POST", url |-> base_url, data |-> data, headers |-> headers,
     timeout |-> _http_client.timeout]

auth_user_request(game_url) ==
    Post([jsonrpc |-> "2.0",
          id |-> "user.authentication.botLogin",
          method |-> "user.authentication.botLogin",
          params |-> [botGameUrl |-> urlparse(game_url).path,
                      botName |-> "telegram",
                      botUserIdentifier |-> None]],
         PlainHeaders)

\* A plausible slip: the id left over from the method above it.
get_web_gameplay_details_request_copied_id(game_url) ==
    Post([jsonrpc |-> "2.0",
          id |-> "user.authentication.botLogin",
          method |-> "game.getWebGameplayDetails",
          params |-> [gameUrl |-> urlparse(game_url).path]],
         PlainHeaders)

get_web_gameplay_details_request(game_url) ==
    Post([jsonrpc |-> "2.0",
          id |-> "game.getWebGameplayDetails",
          method |-> "game.getWebGameplayDetails",
          params |-> [gameUrl |-> urlparse(game_url).path]],
         PlainHeaders)

get_geo_block_status_request(auth_token) ==
    Post([jsonrpc |-> "2.0",
          id |-> "user.getGeoBlockStatus",
          method |-> "user.getGeoBlockStatus",
          params |-> [kind |-> "empty"]],
         BearerHeaders(auth_token))

get_web_surrounding_by_game_request(auth_token, game_url) ==
    Post([jsonrpc |-> "2.0",
          id |-> "leaderboards.getWebSurroundingByGame",
          method |-> "leaderboards.getWebSurroundingByGame",
          params |-> [gameUrl |-> game_url]],
         BearerHeaders(auth_token))

\* The gameplayData record, for the details document `details` (which has a
\* "result"), the call's parameters `a`, and the random and clock values.
gameplayData(details, a, gameplayId, createdTime) ==
    [gameId |-> details.result.game.id,
     score |-> a.score,
     playTime |-> a.play_time,
     gameUrl |-> urlparse(a.game_url).path,
     releaseNumber |-> details.result.game.release.number,
     createdTime |-> createdTime,
     metadata |-> [gameplayId |-> gameplayId],
     isSaveState |-> FALSE,
     gameStateData |-> None,
     gameplayOrigin |-> "game",
     replayData |-> None,
     replayVariant |-> None,
     replayDataChecksum |-> None,
     uuid |-> _uuid,
     checksum |-> _generate_checksum(a.score, a.play_time,
                                     urlparse(a.game_url).path)]

\* A plausible slip: gameId read from the release number.
save_web_gameplay_request_wrong_id(details, a, gameplayId, createdTime) ==
    Post([jsonrpc |-> "2.0",
          id |-> "game.saveWebGameplay",
          method |-> "game.saveWebGameplay",
          params |-> [gameplayData |->
              [gameplayData(details, a, gameplayId, createdTime)
                  EXCEPT !.gameId = details.result.game.release.number]]],
         BearerHeaders(a.auth_token))

\* A plausible slip: the checksum taken over the whole URL, not its path.
save_web_gameplay_request_url_checksum(details, a, gameplayId, createdTime) ==
    Post([jsonrpc |-> "2.0",
          id |-> "game.saveWebGameplay",
          method |-> "game.saveWebGameplay",
          params |-> [gameplayData |->
              [gameplayData(details, a, gameplayId, createdTime)
                  EXCEPT !.checksum =
                      _generate_checksum(a.score, a.play_time, a.game_url)]]],
         BearerHeaders(a.auth_token))

save_web_gameplay_request(details, a, gameplayId, createdTime) ==
    Post([jsonrpc |-> "2.0",
          id |-> "game.saveWebGameplay",
          method |-> "game.saveWebGameplay",
          params |-> [gameplayData |->
              gameplayData(details, a, gameplayId, createdTime)]],
         BearerHeaders(a.auth_token))

\* httpx.Response.is_success
is_success(r) == 200 <= r.status_code /\ r.status_code <= 299

\* A plausible slip: only client and server errors raise.
raise_for_status_4xx_5xx(r) == r.status_code >= 400

\* response.raise_for_status(): TRUE when it raises HTTPStatusError.
raise_for_status(r) == ~is_success(r)

Return(value) == [kind |-> "return", value |-> value]

Raise(exc) == [kind |-> "raise", exc |-> exc]

RaiseStatus(r) ==
    [kind |-> "raise", exc |-> "HTTPStatusError",
     status_code |-> r.status_code]

\* What the three lines after a request is built yield for the answer r:
\*     response = await self._http_client.post(...)
\*     response.raise_for_status()
\*     return response.json()
PostResult(r) ==
    IF r.kind = "transport_error" THEN Raise("TransportError")
    ELSE IF raise_for_status(r) THEN RaiseStatus(r)
    ELSE IF ~r.body.json THEN Raise("JSONDecodeError")
    ELSE Return(r.body.doc)

\* Whether response.json() is reached for the answer r.
JsonCalled(r) == r.kind = "response" /\ ~raise_for_status(r)

PostEvent(request) == [kind |-> "post", request |-> request]

\* The events of the answer r arriving: the response, then json() if called.
AnswerEvents(r) ==
    << [kind |-> "recv", response |-> r] >>
        \o (IF JsonCalled(r) THEN << [kind |-> "json", response |-> r] >>
            ELSE << >>)

\* ----------------------------------------------------------------- actions

\* A plausible slip: parameters parked on the instance before the await, so
\* that a call resumes with those of the call of the same method issued last
\* of those in flight.
InstanceArgs(c) ==
    LET InFlight == { d \in Calls : /\ pc[d] \notin {"idle", "done"}
                                    /\ op[d] = op[c] }
    IN  args[CHOOSE d \in InFlight : \A e \in InFlight : e <= d]

\* The parameters call c reads after its await: those of its own frame.
FrameArgs(c) == args[c]

\* Call c, of method `name` with parameters a, starts and suspends in its
\* first post.  Calls are numbered in the order they are issued.
Suspend(c, name, a, request, at) ==
    /\ in_scope
    /\ pc[c] = "idle"
    /\ \A d \in Calls : d < c => pc[d] # "idle"
    /\ pc' = [pc EXCEPT ![c] = at]
    /\ op' = [op EXCEPT ![c] = name]
    /\ args' = [args EXCEPT ![c] = a]
    /\ events' = [events EXCEPT ![c] = << PostEvent(request) >>]
    /\ UNCHANGED << in_scope, gameplay_details, finished, checksum_calls >>

\* Call c ends with `result` (a return or a raise) after the events `evs`,
\* and its frame is freed.
Finish(c, evs, result) ==
    /\ finished' = [op |-> op[c], args |-> args[c], events |-> evs,
                    outcome |-> result]
    /\ pc' = [pc EXCEPT ![c] = "done"]
    /\ op' = [op EXCEPT ![c] = "none"]
    /\ args' = [args EXCEPT ![c] = None]
    /\ gameplay_details' = [gameplay_details EXCEPT ![c] = None]
    /\ events' = [events EXCEPT ![c] = << >>]
    /\ UNCHANGED << session, in_scope, checksum_calls >>

\* A plausible slip: a failed request is sent once more before giving up.
CompleteWithRetry(c, r) ==
    LET n == Len(events[c])
        again ==
            /\ PostResult(r).kind = "raise"
            /\ \A i \in 1..n :
                  events[c][i].kind = "recv"
                      => PostResult(events[c][i].response).kind = "return"
    IN  IF again
        THEN /\ events' = [events EXCEPT ![c] =
                              events[c] \o AnswerEvents(r) \o << events[c][n] >>]
             /\ UNCHANGED << session, in_scope, pc, op, args,
                             gameplay_details, finished, checksum_calls >>
        ELSE Finish(c, events[c] \o AnswerEvents(r), PostResult(r))

\* The end of every method: the answer r to the pending post arrives, and the
\* call returns the decoded body or raises.
Complete(c, r) == Finish(c, events[c] \o AnswerEvents(r), PostResult(r))

\* A plausible slip: the bot login takes a fresh installation identifier.
auth_user_fresh_uuid(c, game_url) ==
    /\ Suspend(c, "auth_user", [game_url |-> game_url],
               auth_user_request(game_url), "await_post")
    /\ _uuid' \in Uuids \ {_uuid}
    /\ UNCHANGED << base_url, timeout, _http_client >>

auth_user(c, game_url) ==
    /\ Suspend(c, "auth_user", [game_url |-> game_url],
               auth_user_request(game_url), "await_post")
    /\ UNCHANGED session

auth_user_resume(c, r) ==
    /\ op[c] = "auth_user"
    /\ pc[c] = "await_post"
    /\ Complete(c, r)

get_web_gameplay_details(c, game_url) ==
    /\ Suspend(c, "get_web_gameplay_details", [game_url |-> game_url],
               get_web_gameplay_details_request(game_url), "await_post")
    /\ UNCHANGED session

get_web_gameplay_details_resume(c, r) ==
    /\ op[c] = "get_web_gameplay_details"
    /\ pc[c] = "await_post"
    /\ Complete(c, r)

get_geo_block_status(c, auth_token) ==
    /\ Suspend(c, "get_geo_block_status", [auth_token |-> auth_token],
               get_geo_block_status_request(auth_token), "await_post")
    /\ UNCHANGED session

get_geo_block_status_resume(c, r) ==
    /\ op[c] = "get_geo_block_status"
    /\ pc[c] = "await_post"
    /\ Complete(c, r)

get_web_surrounding_by_game(c, auth_token, game_url) ==
    /\ Suspend(c, "get_web_surrounding_by_game",
               [auth_token |-> auth_token, game_url |-> game_url],
               get_web_surrounding_by_game_request(auth_token, game_url),
               "await_post")
    /\ UNCHANGED session

get_web_surrounding_by_game_resume(c, r) ==
    /\ op[c] = "get_web_surrounding_by_game"
    /\ pc[c] = "await_post"
    /\ Complete(c, r)

\* save_web_gameplay up to its first suspension: it calls
\* get_web_gameplay_details(game_url), which posts the details request.
save_web_gameplay(c, a) ==
    /\ Suspend(c, "save_web_gameplay", a,
               get_web_gameplay_details_request(a.game_url), "await_details")
    /\ UNCHANGED session

\* The details answer r arrives.  get_web_gameplay_details raises or returns
\* the decoded body; save_web_gameplay lets the exception through, or builds
\* the submission from the body (KeyError when it has no "result") and
\* suspends in the second post.
save_web_gameplay_details(c, r) ==
    /\ op[c] = "save_web_gameplay"
    /\ pc[c] = "await_details"
    /\ LET got == PostResult(r)
           a == FrameArgs(c)
       IN  IF got.kind = "raise"
           THEN Finish(c, events[c] \o AnswerEvents(r), got)
           ELSE IF "result" \notin DOMAIN got.value
           THEN Finish(c, events[c] \o AnswerEvents(r), Raise("KeyError"))
           ELSE /\ gameplay_details' =
                       [gameplay_details EXCEPT ![c] = got.value]
                /\ pc' = [pc EXCEPT ![c] = "await_save"]
                /\ \E gameplayId \in GameplayIds,
                      createdTime \in CreatedTimes :
                      events' = [events EXCEPT ![c] =
                          events[c] \o AnswerEvents(r)
                              \o << PostEvent(save_web_gameplay_request(
                                        got.value, a, gameplayId,
                                        createdTime)) >>]
                /\ UNCHANGED << session, in_scope, op, args, finished,
                                checksum_calls >>

save_web_gameplay_resume(c, r) ==
    /\ op[c] = "save_web_gameplay"
    /\ pc[c] = "await_save"
    /\ Complete(c, r)

\* The caller is done with the client and lets go of it, once no call is
\* suspended on it.  The class defines no close(), aclose(), __aenter__,
\* __aexit__ or __del__: nothing touches the transport.
Discard ==
    /\ in_scope
    /\ \A c \in Calls : pc[c] \in {"idle", "done"}
    /\ in_scope' = FALSE
    /\ UNCHANGED << session, pc, op, args, gameplay_details, events,
                    finished, checksum_calls >>

Next ==
    \/ \E c \in Calls, game_url \in GameUrls : auth_user(c, game_url)
    \/ \E c \in Calls, r \in Responses : auth_user_resume(c, r)
    \/ \E c \in Calls, game_url \in GameUrls :
          get_web_gameplay_details(c, game_url)
    \/ \E c \in Calls, r \in Responses : get_web_gameplay_details_resume(c, r)
    \/ \E c \in Calls, auth_token \in AuthTokens :
          get_geo_block_status(c, auth_token)
    \/ \E c \in Calls, r \in Responses : get_geo_block_status_resume(c, r)
    \/ \E c \in Calls, a \in CallArgs :
          get_web_surrounding_by_game(c, a.auth_token, a.game_url)
    \/ \E c \in Calls, r \in Responses :
          get_web_surrounding_by_game_resume(c, r)
    \/ \E c \in Calls, a \in CallArgs : save_web_gameplay(c, a)
    \/ \E c \in Calls, r \in Responses : save_web_gameplay_details(c, r)
    \/ \E c \in Calls, r \in Responses : save_web_gameplay_resume(c, r)
    \/ Discard

Spec == Init /\ [][Next]_vars

\* ------------------------------------------- the checksum function by itself

\* A direct call of _generate_checksum on the instance, recorded with its
\* inputs.
generate_checksum(score, play_time, game_url_path) ==
    /\ Len(checksum_calls) < MaxChecksumCalls
    /\ checksum_calls' = Append(checksum_calls,
           [score |-> score, play_time |-> play_time,
            game_url_path |-> game_url_path,
            digest |-> _generate_checksum(score, play_time, game_url_path)])
    /\ UNCHANGED << session, in_scope, pc, op, args, gameplay_details,
                    events, finished >>

ChecksumNext ==
    \E score \in Scores, play_time \in PlayTimes, u \in ParsedUrls :
        generate_checksum(score, play_time, u.path)

ChecksumSpec == Init /\ [][ChecksumNext]_vars

\* -------------------------------------------------------------- properties

\* Every call that has started: those in flight, and the one that ended last.
Traces ==
    { [op |-> op[c], args |-> args[c], events |-> events[c],
       ended |-> FALSE, outcome |-> None] :
        c \in { d \in Calls : pc[d] \notin {"idle", "done"} } }
    \cup (IF finished = None THEN {}
          ELSE { [op |-> finished.op, args |-> finished.args,
                  events |-> finished.events, ended |-> TRUE,
                  outcome |-> finished.outcome] })

\* The positions in a trace of the events of one kind.
At(evs, kind) == { i \in 1..Len(evs) : evs[i].kind = kind }

\* Every request the instance has on record.
Requests ==
    UNION { { t.events[i].request : i \in At(t.events, "post") } :
            t \in Traces }

NonSuccess(r) == r.kind = "response" /\ r.status_code \notin 200..299

Failure(r) == r.kind = "transport_error" \/ NonSuccess(r)

PathOf(game_url) ==
    (CHOOSE u \in ParsedUrls : UrlString(u) = game_url).path

MethodName(name) ==
    CASE name = "auth_user" -> "user.authentication.botLogin"
      [] name = "get_web_gameplay_details" -> "game.getWebGameplayDetails"
      [] name = "get_geo_block_status" -> "user.getGeoBlockStatus"
      [] name = "get_web_surrounding_by_game" ->
             "leaderboards.getWebSurroundingByGame"
      [] name = "save_web_gameplay" -> "game.saveWebGameplay"

\* C1: every save_web_gameplay call that returns has sent exactly two POSTs:
\* first the game.getWebGameplayDetails request for the path of its game URL,
\* then, after the answer to it has arrived, the game.saveWebGameplay request,
\* whose gameId and releaseNumber are result.game.id and
\* result.game.release.number of that answer.
C1_SaveSendsDetailsThenSubmission ==
    \A t \in Traces :
        (t.op = "save_web_gameplay" /\ t.ended /\ t.outcome.kind = "return")
        => LET evs == t.events
               posts == At(evs, "post")
               recvs == At(evs, "recv")
           IN  /\ Cardinality(posts) = 2
               /\ Cardinality(recvs) = 2
               /\ \E i, k \in posts, j \in recvs :
                     /\ i < j /\ j < k
                     /\ \A m \in recvs : j <= m
                     /\ evs[i].request.verb = "POST"
                     /\ evs[i].request.data.method
                            = "game.getWebGameplayDetails"
                     /\ evs[i].request.data.params.gameUrl
                            = PathOf(t.args.game_url)
                     /\ evs[k].request.verb = "POST"
                     /\ evs[k].request.data.method = "game.saveWebGameplay"
                     /\ LET g == evs[k].request.data.params.gameplayData
                            game == evs[j].response.body.doc.result.game
                        IN  /\ g.gameId = game.id
                            /\ g.releaseNumber = game.release.number

C1_Witness ==
    /\ finished # None
    /\ finished.op = "save_web_gameplay"
    /\ finished.outcome.kind = "return"
    /\ "result" \in DOMAIN finished.outcome.value

\* The submission requests on record, each with the parameters of its call.
Submissions ==
    UNION { { [args |-> t.args, request |-> t.events[i].request,
               details |-> t.events[2].response] :
              i \in { k \in At(t.events, "post") : k > 1 } } :
            t \in { u \in Traces : u.op = "save_web_gameplay" } }

\* C2: in every submission request the checksum is the digest of the text
\* made of that request's own score, playTime, gameUrl and uuid fields and
\* the seed; the gameUrl is the path of the call's game URL; and the uuid is
\* the X-Install-Uuid header of the same request.
C2_ChecksumCoversSubmittedTuple ==
    \A s \in Submissions :
        LET g == s.request.data.params.gameplayData
        IN  /\ g.checksum.md5
                  = ToString(g.score) \o ":" \o ToString(g.playTime) \o ":"
                        \o g.gameUrl \o "::" \o g.uuid \o ":" \o SEED
            /\ g.gameUrl = PathOf(s.args.game_url)
            /\ g.uuid = s.request.headers["X-Install-Uuid"]

C2_Witness ==
    \E s \in Submissions :
        /\ s.args.game_url # PathOf(s.args.game_url)
        /\ s.request.data.params.gameplayData.score < 0

\* C3: every digest _generate_checksum returned on this instance is taken
\* over the text score ":" play_time ":" game_path "::" installation id ":"
\* seed, and two calls with the same inputs returned the same digest.
C3_ChecksumFormatAndDeterminism ==
    \A i \in 1..Len(checksum_calls) :
        LET k == checksum_calls[i]
        IN  /\ k.digest.md5
                  = ToString(k.score) \o ":" \o ToString(k.play_time) \o ":"
                        \o k.game_url_path \o "::" \o _uuid \o ":" \o SEED
            /\ \A j \in 1..Len(checksum_calls) :
                  LET l == checksum_calls[j]
                  IN  (/\ l.score = k.score
                       /\ l.play_time = k.play_time
                       /\ l.game_url_path = k.game_url_path)
                      => l.digest = k.digest

C3_Witness ==
    /\ Len(checksum_calls) >= 2
    /\ checksum_calls[1].score = checksum_calls[2].score
    /\ checksum_calls[1].play_time = checksum_calls[2].play_time
    /\ checksum_calls[1].game_url_path = checksum_calls[2].game_url_path
    /\ checksum_calls[1].score = 1500
    /\ checksum_calls[1].play_time = 42
    /\ checksum_calls[1].game_url_path = "/play/mygame"
    /\ _uuid = "abc-123"
    /\ checksum_calls[2].digest.md5
           = "1500:42:/play/mygame::abc-123:" \o SEED

\* C4: in every operation, an answer with a non-2xx status ends the call
\* with an HTTPStatusError carrying that status; json() is not called on
\* that answer and nothing is returned.
C4_NonSuccessStatusRaises ==
    \A t \in Traces :
        \A i \in At(t.events, "recv") :
            NonSuccess(t.events[i].response)
            => /\ t.ended
               /\ i = Len(t.events)
               /\ t.outcome.kind = "raise"
               /\ t.outcome.exc = "HTTPStatusError"
               /\ t.outcome.status_code = t.events[i].response.status_code
               /\ \A j \in At(t.events, "json") :
                     t.events[j].response # t.events[i].response

C4_Witness ==
    /\ finished # None
    /\ finished.op = "save_web_gameplay"
    /\ Cardinality(At(finished.events, "post")) = 2
    /\ finished.outcome.kind = "raise"
    /\ finished.outcome.exc = "HTTPStatusError"
    /\ finished.outcome.status_code = 302

\* C5: a failed request (transport error or non-2xx status) is the last thing
\* its call does: the call ends at once, raising that error, with no further
\* request.  A save_web_gameplay whose details request failed has sent one
\* request, and one whose submission failed has sent two.
C5_FailurePropagatesWithoutRetry ==
    \A t \in Traces :
        \A i \in At(t.events, "recv") :
            Failure(t.events[i].response)
            => /\ t.ended
               /\ \A k \in At(t.events, "post") : k < i
               /\ i = Len(t.events)
               /\ t.outcome.kind = "raise"
               /\ t.outcome.exc =
                      IF t.events[i].response.kind = "transport_error"
                      THEN "TransportError" ELSE "HTTPStatusError"
               /\ Cardinality(At(t.events, "post"))
                      = Cardinality(At(t.events, "recv"))
               /\ Cardinality(At(t.events, "post"))
                      <= (IF t.op = "save_web_gameplay" THEN 2 ELSE 1)

C5_Witness ==
    /\ finished # None
    /\ finished.op = "save_web_gameplay"
    /\ Cardinality(At(finished.events, "post")) = 1
    /\ finished.outcome.kind = "raise"
    /\ finished.outcome.exc = "TransportError"

\* C6: in every operation, save_web_gameplay included, a call all of whose
\* answers were 2xx with a JSON body returns the body of its last answer
\* as it is, whatever that body says.
C6_LogicalFailurePassedThrough ==
    \A t \in Traces :
        (/\ t.ended
         /\ \A i \in At(t.events, "recv") :
               /\ ~Failure(t.events[i].response)
               /\ t.events[i].response.body.json)
        => /\ t.outcome.kind = "return"
           /\ \E i \in At(t.events, "recv") :
                 /\ \A j \in At(t.events, "recv") : j <= i
                 /\ t.outcome.value = t.events[i].response.body.doc

\* C7: every call of the four single-request operations has sent exactly one
\* POST, to the configured base URL, with jsonrpc "2.0", the operation's
\* method name as method and as id, and an Authorization: Bearer <token>
\* header exactly when the operation takes an auth token.
C7_SingleRequestOperations ==
    \A t \in Traces :
        t.op # "save_web_gameplay"
        => /\ Cardinality(At(t.events, "post")) = 1
           /\ LET q == t.events[1].request
              IN  /\ t.events[1].kind = "post"
                  /\ q.verb = "POST"
                  /\ q.url = base_url
                  /\ q.data.jsonrpc = "2.0"
                  /\ q.data.method = MethodName(t.op)
                  /\ q.data.id = MethodName(t.op)
                  /\ ("Authorization" \in DOMAIN q.headers)
                         <=> (t.op \in {"get_geo_block_status",
                                        "get_web_surrounding_by_game"})
                  /\ ("Authorization" \in DOMAIN q.headers)
                         => q.headers["Authorization"]
                                = "Bearer " \o t.args.auth_token

C7_Witness ==
    /\ finished # None
    /\ finished.op = "get_geo_block_status"
    /\ \E c \in Calls : pc[c] = "await_post" /\ op[c] = "auth_user"
    /\ base_url # BASE_URL

\* C8: no step changes the installation identifier, the base URL, the timeout
\* or the transport, and after every step each request on record carries the
\* installation identifier in its X-Install-Uuid header.
C8_SessionStateIsStable ==
    [][ /\ _uuid' = _uuid
        /\ base_url' = base_url
        /\ timeout' = timeout
        /\ _http_client' = _http_client
        /\ \A q \in Requests' : q.headers["X-Install-Uuid"] = _uuid' ]_vars

C8_Witness ==
    /\ \A c \in Calls : pc[c] = "done"
    /\ finished.outcome.kind = "raise"
    /\ \A q \in Requests : q.headers["X-Install-Uuid"] = "9f1c-77e"

\* C9: once the caller has let go of the client, its transport is closed.
C9_TransportReleased ==
    ~in_scope => _http_client.state = "closed"

\* C10: with calls in flight together, every submission request carries the
\* gameId and releaseNumber of the details answer of its own call, and the
\* score, play time, game path and token its own call was given.
C10_SubmissionUsesOwnCallData ==
    \A s \in Submissions :
        LET g == s.request.data.params.gameplayData
            game == s.details.body.doc.result.game
        IN  /\ g.gameId = game.id
            /\ g.releaseNumber = game.release.number
            /\ g.score = s.args.score
            /\ g.playTime = s.args.play_time
            /\ g.gameUrl = PathOf(s.args.game_url)
            /\ s.request.headers["Authorization"]
                   = "Bearer " \o s.args.auth_token

C10_Witness ==
    \E c, d \in Calls :
        /\ pc[c] = "await_save"
        /\ pc[d] = "await_save"
        /\ args[c].game_url # args[d].game_url
        /\ gameplay_details[c] # gameplay_details[d]
        /\ events[c][Len(events[c])].request.data.params.gameplayData.gameId
               = gameplay_details[c].result.game.id

====
